---- MODULE Spec2Model ----
(***************************************************************************)
(* Model of the keyboard controller of axis360                             *)
(* (src/controls/keyboard.js): per-key state, handler registry, the        *)
(* key-up release timer and the per-tick dispatch of update().             *)
(*                                                                         *)
(* Every operation overwrites `log' with the externally visible effects    *)
(* it produced, in program order, and `lastOp' with its name and argument. *)
(* Time is abstracted: a scheduled timer fires at some later step.         *)
(***************************************************************************)
EXTENDS Integers, Sequences, FiniteSets

VARIABLES
  keystate,      \* this.state.keystate: code -> BOOLEAN, entries created lazily
  handlers,      \* this.state.handlers: code -> sequence of handler functions
  keyupTimeout,  \* this.state.keyupTimeout: last timer handle, 0 = undefined
  pending,       \* timer handles scheduled and neither fired nor cleared
  forceUpdate,   \* this.state.forceUpdate
  isEnabled,     \* this.state.isEnabled
  isFocused,     \* scope.state.isFocused
  forceFocus,    \* scope.state.forceFocus
  blockedKeys,   \* codes k with scope.projections.constraints.keys[k] == true
  panSpeed,      \* this.state.panSpeed
  lastOp,        \* <<name, argument>> of the operation that ran last
  log,           \* effects of the operation that ran last, in order
  lastKeyEvent   \* history: code -> last key event delivered for it
                 \* ("down", "up", or "none"); recorded by KeySpec only

vars == <<keystate, handlers, keyupTimeout, pending, forceUpdate, isEnabled,
          isFocused, forceFocus, blockedKeys, panSpeed, lastOp, log,
          lastKeyEvent>>

----------------------------------------------------------------------------
(* Bounds of the model *)

\* codes delivered by key events (e.which): up, down and the unsupported esc
EventCodes == {38, 40, 27}

\* codes whose constraint flag the scene toggles
ConstraintCodes == {38}

\* key arguments passed to use(): by name, by code, unknown name, non-key value
UseKeys == {<<"string", "up">>, <<"number", 38>>, <<"string", "esc">>,
            <<"string", "bogus">>, <<"object", "{}">>}

\* handler functions callers register with use()
CustomHandlers == {"h1", "h2"}

\* number of use() registrations after construction
MaxUse == 2

\* codes delivered by key events where the four directions are exercised
PanCodes == {37, 38, 39, 40}

\* values state.panSpeed is configured to
PanSpeeds == {1, 3}

----------------------------------------------------------------------------
(* Static tables *)

DEFAULT_KEY_PAN_SPEED == 1

\* the local name -> code table
keycodes == [esc |-> 27, space |-> 32, left |-> 37, up |-> 38,
             right |-> 39, down |-> 40]

\* for..in visits the table in insertion order
keycodesOrder == <<"esc", "space", "left", "up", "right", "down">>

RECURSIVE keynameFrom(_, _)
keynameFrom(code, i) ==
  IF i > Len(keycodesOrder) THEN "null"
  ELSE IF code = keycodes[keycodesOrder[i]] THEN keycodesOrder[i]
  ELSE keynameFrom(code, i + 1)

keyname(code) == keynameFrom(code, 1)

\* the `keycode' module applied to a name: a tagged number, or undefined
keycode(name) ==
  IF name \in DOMAIN keycodes THEN <<"number", keycodes[name]>>
  ELSE <<"undefined", "undefined">>

keynames == <<"up", "down", "left", "right">>

\* state.supported and state.keycodes: keynames.map(keycode)
supported == [i \in 1..Len(keynames) |-> keycode(keynames[i])[2]]

SupportedKeySet == {supported[i] : i \in 1..Len(supported)}

----------------------------------------------------------------------------
(* Helpers *)

\* obj[k] = v on a lazily populated object
Put(obj, k, v) == [x \in DOMAIN obj \cup {k} |-> IF x = k THEN v ELSE obj[x]]

\* obj[k] read as a truth value: undefined is falsy
Truthy(obj, k) == k \in DOMAIN obj /\ obj[k] = TRUE

Focused == forceFocus \/ isFocused

\* state.isKeydown
isKeydown == \E code \in DOMAIN keystate : keystate[code] = TRUE

\* key = 'string' == typeof key ? keycode(key) : key
ResolveKey(key) == IF key[1] = "string" THEN keycode(key[2]) ELSE key

\* clearTimeout(h): a pending handle is cancelled, anything else is a no-op
ClearTimeout(h) == pending \ {h}

CancelLog(h) == IF h \in pending THEN <<[ev |-> "cancel", id |-> h]>> ELSE <<>>

\* handle returned by setTimeout: distinct from every handle still referenced
FreshTimer ==
  CHOOSE n \in 1..(Cardinality(pending) + 2) :
    /\ n \notin pending \cup {keyupTimeout}
    /\ \A m \in 1..(n - 1) : m \in pending \cup {keyupTimeout}

----------------------------------------------------------------------------
(* isKeySupported *)

\* variant: the membership test in state.supported is missing
isKeySupported_NoSupportedCheck(key) ==
  LET k == ResolveKey(key) IN
  IF k[1] # "number" THEN FALSE
  ELSE IF k[2] \in blockedKeys THEN FALSE
  ELSE TRUE

\* variant: the constraints are not consulted
isKeySupported_IgnoreConstraints(key) ==
  LET k == ResolveKey(key) IN
  IF k[1] # "number" THEN FALSE
  ELSE IF \A i \in 1..Len(supported) : supported[i] # k[2] THEN FALSE
  ELSE TRUE

isKeySupported(key) ==
  LET k == ResolveKey(key) IN
  IF k[1] # "number" THEN FALSE
  ELSE IF k[2] \in blockedKeys THEN FALSE
  ELSE IF \A i \in 1..Len(supported) : supported[i] # k[2] THEN FALSE
  ELSE TRUE

----------------------------------------------------------------------------
(* Handlers *)

\* variant: the default bindings use the speed the controller was built with
HandlerBody_SpeedAtConstruction(fn, data) ==
  LET speed == DEFAULT_KEY_PAN_SPEED IN
  CASE fn = "panUp"    -> <<[ev |-> "pan", dx2 |-> 0, dy2 |-> -speed]>>
    [] fn = "panDown"  -> <<[ev |-> "pan", dx2 |-> 0, dy2 |-> speed]>>
    [] fn = "panLeft"  -> <<[ev |-> "pan", dx2 |-> -(speed * 2) * 2, dy2 |-> 0]>>
    [] fn = "panRight" -> <<[ev |-> "pan", dx2 |-> (speed * 2) * 2, dy2 |-> 0]>>
    [] OTHER           -> <<>>

\* body of a registered handler: the four default bindings pan the camera.
\* Deltas are recorded doubled (dx2 = 2x, dy2 = 2y) so that panSpeed / 2
\* stays an integer.
HandlerBody(fn, data) ==
  CASE fn = "panUp"    -> <<[ev |-> "pan", dx2 |-> 0, dy2 |-> -panSpeed]>>
    [] fn = "panDown"  -> <<[ev |-> "pan", dx2 |-> 0, dy2 |-> panSpeed]>>
    [] fn = "panLeft"  -> <<[ev |-> "pan", dx2 |-> -(panSpeed * 2) * 2, dy2 |-> 0]>>
    [] fn = "panRight" -> <<[ev |-> "pan", dx2 |-> (panSpeed * 2) * 2, dy2 |-> 0]>>
    [] OTHER           -> <<>>

\* variant: the constructor does not bind `right'
DefaultHandlers_NoRight ==
  [code \in {38, 40, 37} |->
     CASE code = 38 -> <<"panUp">>
       [] code = 40 -> <<"panDown">>
       [] code = 37 -> <<"panLeft">>]

\* registry after the constructor's four use() calls
DefaultHandlers ==
  [code \in {38, 40, 37, 39} |->
     CASE code = 38 -> <<"panUp">>
       [] code = 40 -> <<"panDown">>
       [] code = 37 -> <<"panLeft">>
       [] code = 39 -> <<"panRight">>]

RECURSIVE TotalHandlers(_, _)
TotalHandlers(reg, codes) ==
  IF codes = {} THEN 0
  ELSE LET c == CHOOSE x \in codes : TRUE
       IN Len(reg[c]) + TotalHandlers(reg, codes \ {c})

\* handlers registered by the constructor's four default bindings
DefaultHandlerCount ==
  TotalHandlers(DefaultHandlers, DOMAIN DefaultHandlers)

\* use() calls made since construction
UseCount ==
  TotalHandlers(handlers, DOMAIN handlers) - DefaultHandlerCount

----------------------------------------------------------------------------
(* update *)

\* variant: handlers run whether or not their key is held
RECURSIVE HandleEach_NoHeldCheck(_, _, _)
HandleEach_NoHeldCheck(code, hs, i) ==
  IF i > Len(hs) THEN <<>>
  ELSE LET name == keyname(code)
           data == [name |-> name, code |-> code]
           this == <<[ev |-> "call", fn |-> hs[i], idx |-> i, data |-> data]>>
                     \o HandlerBody(hs[i], data)
       IN this \o HandleEach_NoHeldCheck(code, hs, i + 1)

\* variant: a held key that is constrained by now is skipped
RECURSIVE HandleEach_SkipConstrained(_, _, _)
HandleEach_SkipConstrained(code, hs, i) ==
  IF i > Len(hs) THEN <<>>
  ELSE LET name == keyname(code)
           data == [name |-> name, code |-> code]
           this == IF Truthy(keystate, code) /\ code \notin blockedKeys
                   THEN <<[ev |-> "call", fn |-> hs[i], idx |-> i, data |-> data]>>
                        \o HandlerBody(hs[i], data)
                   ELSE <<>>
       IN this \o HandleEach_SkipConstrained(code, hs, i + 1)

\* handlers[code].forEach(...)
RECURSIVE HandleEach(_, _, _)
HandleEach(code, hs, i) ==
  IF i > Len(hs) THEN <<>>
  ELSE LET name == keyname(code)
           data == [name |-> name, code |-> code]
           this == IF Truthy(keystate, code)
                   THEN <<[ev |-> "call", fn |-> hs[i], idx |-> i, data |-> data]>>
                        \o HandlerBody(hs[i], data)
                   ELSE <<>>
       IN this \o HandleEach(code, hs, i + 1)

\* variant: the base update runs before the handlers
RECURSIVE DispatchFrom_BaseFirst(_)
DispatchFrom_BaseFirst(i) ==
  IF i > Len(supported) THEN <<>>
  ELSE IF supported[i] \notin DOMAIN handlers THEN <<[ev |-> "throw", error |-> "TypeError"]>>
  ELSE LET first == IF i = 1 THEN <<[ev |-> "baseUpdate"]>> ELSE <<>>
           part == HandleEach(supported[i], handlers[supported[i]], 1)
           rest == DispatchFrom_BaseFirst(i + 1)
       IN first \o part \o rest

\* state.keycodes.forEach(...), then the base update; a missing handler list
\* throws and abandons the rest of the call
RECURSIVE DispatchFrom(_)
DispatchFrom(i) ==
  IF i > Len(supported) THEN <<[ev |-> "baseUpdate"]>>
  ELSE IF supported[i] \notin DOMAIN handlers THEN <<[ev |-> "throw", error |-> "TypeError"]>>
  ELSE LET part == HandleEach(supported[i], handlers[supported[i]], 1)
           rest == DispatchFrom(i + 1)
       IN part \o rest

update ==
  /\ log' = IF ~isKeydown THEN <<>> ELSE DispatchFrom(1)
  /\ lastOp' = <<"update", 0>>
  /\ UNCHANGED <<keystate, handlers, keyupTimeout, pending, forceUpdate,
                 isEnabled, isFocused, forceFocus, blockedKeys, panSpeed>>

----------------------------------------------------------------------------
(* reset *)

\* variant: the key states are left as they are
reset_KeepKeys ==
  /\ pending' = ClearTimeout(keyupTimeout)
  /\ log' = CancelLog(keyupTimeout) \o <<[ev |-> "baseReset"]>>
  /\ lastOp' = <<"reset", 0>>
  /\ UNCHANGED <<keystate, handlers, keyupTimeout, forceUpdate, isEnabled,
                 isFocused, forceFocus, blockedKeys, panSpeed>>

reset ==
  /\ pending' = ClearTimeout(keyupTimeout)
  /\ keystate' = [code \in DOMAIN keystate |-> FALSE]
  /\ log' = CancelLog(keyupTimeout) \o <<[ev |-> "baseReset"]>>
  /\ lastOp' = <<"reset", 0>>
  /\ UNCHANGED <<handlers, keyupTimeout, forceUpdate, isEnabled, isFocused,
                 forceFocus, blockedKeys, panSpeed>>

----------------------------------------------------------------------------
(* use *)

\* variant: the typeof test is missing, an unresolved key is used as it is
use_NoTypeCheck(key, fn) ==
  LET k == ResolveKey(key)
      c == IF k[1] = "number" THEN k[2] ELSE 0
  IN
  /\ UseCount < MaxUse
  /\ handlers' = Put(handlers, c,
                     (IF c \in DOMAIN handlers THEN handlers[c] ELSE <<>>) \o <<fn>>)
  /\ log' = <<>>
  /\ lastOp' = <<"use", c>>
  /\ UNCHANGED <<keystate, keyupTimeout, pending, forceUpdate, isEnabled,
                 isFocused, forceFocus, blockedKeys, panSpeed>>

\* variant: the handler is put at the front of the list (unshift for push)
use_Unshift(key, fn) ==
  LET k == ResolveKey(key) IN
  /\ UseCount < MaxUse
  /\ IF k[1] # "number"
     THEN /\ log' = <<[ev |-> "throw", error |-> "TypeError"]>>
          /\ lastOp' = <<"use", 0>>
          /\ UNCHANGED handlers
     ELSE /\ handlers' = Put(handlers, k[2],
                             <<fn>> \o
                               (IF k[2] \in DOMAIN handlers THEN handlers[k[2]] ELSE <<>>))
          /\ log' = <<>>
          /\ lastOp' = <<"use", k[2]>>
  /\ UNCHANGED <<keystate, keyupTimeout, pending, forceUpdate, isEnabled,
                 isFocused, forceFocus, blockedKeys, panSpeed>>

use(key, fn) ==
  LET k == ResolveKey(key) IN
  /\ UseCount < MaxUse
  /\ IF k[1] # "number"
     THEN /\ log' = <<[ev |-> "throw", error |-> "TypeError"]>>
          /\ lastOp' = <<"use", 0>>
          /\ UNCHANGED handlers
     ELSE /\ handlers' = Put(handlers, k[2],
                             (IF k[2] \in DOMAIN handlers THEN handlers[k[2]] ELSE <<>>)
                               \o <<fn>>)
          /\ log' = <<>>
          /\ lastOp' = <<"use", k[2]>>
  /\ UNCHANGED <<keystate, keyupTimeout, pending, forceUpdate, isEnabled,
                 isFocused, forceFocus, blockedKeys, panSpeed>>

----------------------------------------------------------------------------
(* key events *)

\* variant: preventDefault is called before the key is tested
onkeydown_PreventFirst(code) ==
  /\ pending' = ClearTimeout(keyupTimeout)
  /\ lastOp' = <<"keydown", code>>
  /\ IF ~isEnabled
     THEN /\ log' = CancelLog(keyupTimeout)
          /\ UNCHANGED keystate
     ELSE IF Focused
     THEN IF ~isKeySupported(<<"number", code>>)
          THEN /\ log' = CancelLog(keyupTimeout) \o <<[ev |-> "preventDefault"]>>
               /\ UNCHANGED keystate
          ELSE /\ keystate' = Put(keystate, code, TRUE)
               /\ log' = CancelLog(keyupTimeout)
                           \o <<[ev |-> "preventDefault"],
                                [ev |-> "emit", name |-> "keydown", which |-> code]>>
     ELSE /\ log' = CancelLog(keyupTimeout)
                      \o <<[ev |-> "emit", name |-> "keydown", which |-> code]>>
          /\ UNCHANGED keystate
  /\ UNCHANGED <<handlers, keyupTimeout, forceUpdate, isEnabled, isFocused,
                 forceFocus, blockedKeys, panSpeed>>

\* variant: the isEnabled test is missing
onkeydown_NoEnabledCheck(code) ==
  /\ pending' = ClearTimeout(keyupTimeout)
  /\ lastOp' = <<"keydown", code>>
  /\ IF Focused
     THEN IF ~isKeySupported(<<"number", code>>)
          THEN /\ log' = CancelLog(keyupTimeout)
               /\ UNCHANGED keystate
          ELSE /\ keystate' = Put(keystate, code, TRUE)
               /\ log' = CancelLog(keyupTimeout)
                           \o <<[ev |-> "preventDefault"],
                                [ev |-> "emit", name |-> "keydown", which |-> code]>>
     ELSE /\ log' = CancelLog(keyupTimeout)
                      \o <<[ev |-> "emit", name |-> "keydown", which |-> code]>>
          /\ UNCHANGED keystate
  /\ UNCHANGED <<handlers, keyupTimeout, forceUpdate, isEnabled, isFocused,
                 forceFocus, blockedKeys, panSpeed>>

\* variant: the event is emitted only for key-downs that were accepted
onkeydown_EmitAcceptedOnly(code) ==
  /\ pending' = ClearTimeout(keyupTimeout)
  /\ lastOp' = <<"keydown", code>>
  /\ IF ~isEnabled
     THEN /\ log' = CancelLog(keyupTimeout)
          /\ UNCHANGED keystate
     ELSE IF Focused
     THEN IF ~isKeySupported(<<"number", code>>)
          THEN /\ log' = CancelLog(keyupTimeout)
               /\ UNCHANGED keystate
          ELSE /\ keystate' = Put(keystate, code, TRUE)
               /\ log' = CancelLog(keyupTimeout)
                           \o <<[ev |-> "preventDefault"],
                                [ev |-> "emit", name |-> "keydown", which |-> code]>>
     ELSE /\ log' = CancelLog(keyupTimeout)
          /\ UNCHANGED keystate
  /\ UNCHANGED <<handlers, keyupTimeout, forceUpdate, isEnabled, isFocused,
                 forceFocus, blockedKeys, panSpeed>>

onkeydown(code) ==
  /\ pending' = ClearTimeout(keyupTimeout)
  /\ lastOp' = <<"keydown", code>>
  /\ IF ~isEnabled
     THEN /\ log' = CancelLog(keyupTimeout)
          /\ UNCHANGED keystate
     ELSE IF Focused
     THEN IF ~isKeySupported(<<"number", code>>)
          THEN /\ log' = CancelLog(keyupTimeout)
               /\ UNCHANGED keystate
          ELSE /\ keystate' = Put(keystate, code, TRUE)
               /\ log' = CancelLog(keyupTimeout)
                           \o <<[ev |-> "preventDefault"],
                                [ev |-> "emit", name |-> "keydown", which |-> code]>>
     ELSE /\ log' = CancelLog(keyupTimeout)
                      \o <<[ev |-> "emit", name |-> "keydown", which |-> code]>>
          /\ UNCHANGED keystate
  /\ UNCHANGED <<handlers, keyupTimeout, forceUpdate, isEnabled, isFocused,
                 forceFocus, blockedKeys, panSpeed>>

\* variant: a disabled controller ignores key-ups as it ignores key-downs
onkeyup_IgnoredWhenDisabled(code) ==
  /\ lastOp' = <<"keyup", code>>
  /\ IF ~isEnabled
     THEN /\ log' = <<>>
          /\ UNCHANGED <<keystate, forceUpdate, keyupTimeout, pending>>
     ELSE /\ keystate' = Put(keystate, code, FALSE)
          /\ IF Focused
             THEN /\ forceUpdate' = TRUE
                  /\ keyupTimeout' = FreshTimer
                  /\ pending' = ClearTimeout(keyupTimeout) \cup {FreshTimer}
                  /\ log' = CancelLog(keyupTimeout)
                              \o <<[ev |-> "setTimeout", id |-> FreshTimer]>>
             ELSE /\ log' = <<>>
                  /\ UNCHANGED <<forceUpdate, keyupTimeout, pending>>
  /\ UNCHANGED <<handlers, isEnabled, isFocused, forceFocus, blockedKeys, panSpeed>>

\* variant: a new timer is scheduled without clearing the previous one
onkeyup_NoClear(code) ==
  /\ keystate' = Put(keystate, code, FALSE)
  /\ lastOp' = <<"keyup", code>>
  /\ IF Focused
     THEN /\ forceUpdate' = TRUE
          /\ keyupTimeout' = FreshTimer
          /\ pending' = pending \cup {FreshTimer}
          /\ log' = <<[ev |-> "setTimeout", id |-> FreshTimer]>>
     ELSE /\ log' = <<>>
          /\ UNCHANGED <<forceUpdate, keyupTimeout, pending>>
  /\ UNCHANGED <<handlers, isEnabled, isFocused, forceFocus, blockedKeys, panSpeed>>

\* variant: the key state is cleared only while the scene is focused
onkeyup_ClearWhenFocused(code) ==
  /\ lastOp' = <<"keyup", code>>
  /\ IF Focused
     THEN /\ keystate' = Put(keystate, code, FALSE)
          /\ forceUpdate' = TRUE
          /\ keyupTimeout' = FreshTimer
          /\ pending' = ClearTimeout(keyupTimeout) \cup {FreshTimer}
          /\ log' = CancelLog(keyupTimeout)
                      \o <<[ev |-> "setTimeout", id |-> FreshTimer]>>
     ELSE /\ log' = <<>>
          /\ UNCHANGED <<keystate, forceUpdate, keyupTimeout, pending>>
  /\ UNCHANGED <<handlers, isEnabled, isFocused, forceFocus, blockedKeys, panSpeed>>

onkeyup(code) ==
  /\ keystate' = Put(keystate, code, FALSE)
  /\ lastOp' = <<"keyup", code>>
  /\ IF Focused
     THEN /\ forceUpdate' = TRUE
          /\ keyupTimeout' = FreshTimer
          /\ pending' = ClearTimeout(keyupTimeout) \cup {FreshTimer}
          /\ log' = CancelLog(keyupTimeout)
                      \o <<[ev |-> "setTimeout", id |-> FreshTimer]>>
     ELSE /\ log' = <<>>
          /\ UNCHANGED <<forceUpdate, keyupTimeout, pending>>
  /\ UNCHANGED <<handlers, isEnabled, isFocused, forceFocus, blockedKeys, panSpeed>>

\* variant: the callback leaves forceUpdate as it is
keyupTimeoutFired_KeepFlag(id) ==
  /\ id \in pending
  /\ pending' = pending \ {id}
  /\ lastOp' = <<"timer", id>>
  /\ log' = <<>>
  /\ UNCHANGED <<keystate, handlers, keyupTimeout, forceUpdate, isEnabled,
                 isFocused, forceFocus, blockedKeys, panSpeed>>

\* the callback passed to setTimeout in onkeyup
keyupTimeoutFired(id) ==
  /\ id \in pending
  /\ pending' = pending \ {id}
  /\ forceUpdate' = FALSE
  /\ lastOp' = <<"timer", id>>
  /\ log' = <<>>
  /\ UNCHANGED <<keystate, handlers, keyupTimeout, isEnabled, isFocused,
                 forceFocus, blockedKeys, panSpeed>>

----------------------------------------------------------------------------
(* operations of the base controller and of the scene *)

enable ==
  /\ isEnabled' = TRUE
  /\ lastOp' = <<"enable", 0>>
  /\ log' = <<>>
  /\ UNCHANGED <<keystate, handlers, keyupTimeout, pending, forceUpdate,
                 isFocused, forceFocus, blockedKeys, panSpeed>>

disable ==
  /\ isEnabled' = FALSE
  /\ lastOp' = <<"disable", 0>>
  /\ log' = <<>>
  /\ UNCHANGED <<keystate, handlers, keyupTimeout, pending, forceUpdate,
                 isFocused, forceFocus, blockedKeys, panSpeed>>

SetFocused(b) ==
  /\ isFocused' = b
  /\ lastOp' = <<"scene", 0>>
  /\ log' = <<>>
  /\ UNCHANGED <<keystate, handlers, keyupTimeout, pending, forceUpdate,
                 isEnabled, forceFocus, blockedKeys, panSpeed>>

SetForceFocus(b) ==
  /\ forceFocus' = b
  /\ lastOp' = <<"scene", 0>>
  /\ log' = <<>>
  /\ UNCHANGED <<keystate, handlers, keyupTimeout, pending, forceUpdate,
                 isEnabled, isFocused, blockedKeys, panSpeed>>

SetConstraint(code, b) ==
  /\ blockedKeys' = IF b THEN blockedKeys \cup {code} ELSE blockedKeys \ {code}
  /\ lastOp' = <<"scene", 0>>
  /\ log' = <<>>
  /\ UNCHANGED <<keystate, handlers, keyupTimeout, pending, forceUpdate,
                 isEnabled, isFocused, forceFocus, panSpeed>>

\* the caller assigns state.panSpeed
SetPanSpeed(s) ==
  /\ panSpeed' = s
  /\ lastOp' = <<"panSpeed", s>>
  /\ log' = <<>>
  /\ UNCHANGED <<keystate, handlers, keyupTimeout, pending, forceUpdate,
                 isEnabled, isFocused, forceFocus, blockedKeys>>

----------------------------------------------------------------------------
(* Specification *)

\* the state a freshly constructed controller is in
Init ==
  /\ keystate = [code \in {} |-> FALSE]
  /\ handlers = DefaultHandlers
  /\ keyupTimeout = 0
  /\ pending = {}
  /\ forceUpdate = FALSE
  /\ isEnabled = FALSE
  /\ isFocused = FALSE
  /\ forceFocus = FALSE
  /\ blockedKeys = {}
  /\ panSpeed = DEFAULT_KEY_PAN_SPEED
  /\ lastOp = <<"new", 0>>
  /\ log = <<[ev |-> "baseReset"]>>
  /\ lastKeyEvent = [code \in EventCodes |-> "none"]

Next ==
  \/ \E code \in EventCodes : onkeydown(code) /\ UNCHANGED lastKeyEvent
  \/ \E code \in EventCodes : onkeyup(code) /\ UNCHANGED lastKeyEvent
  \/ \E id \in pending : keyupTimeoutFired(id) /\ UNCHANGED lastKeyEvent
  \/ update /\ UNCHANGED lastKeyEvent
  \/ reset /\ UNCHANGED lastKeyEvent
  \/ \E key \in UseKeys, fn \in CustomHandlers :
       use(key, fn) /\ UNCHANGED lastKeyEvent
  \/ enable /\ UNCHANGED lastKeyEvent
  \/ disable /\ UNCHANGED lastKeyEvent
  \/ \E b \in BOOLEAN : SetFocused(b) /\ UNCHANGED lastKeyEvent
  \/ \E b \in BOOLEAN : SetForceFocus(b) /\ UNCHANGED lastKeyEvent
  \/ \E code \in ConstraintCodes, b \in BOOLEAN :
       SetConstraint(code, b) /\ UNCHANGED lastKeyEvent

Spec == Init /\ [][Next]_vars

\* a timer that stays scheduled is eventually run by the event loop
FairSpec ==
  Spec /\ WF_vars(\E id \in pending :
                    keyupTimeoutFired(id) /\ UNCHANGED lastKeyEvent)

\* The four directions and the pan speed: a controller made by the module's
\* factory (constructed, enabled, updated once) on a focused scene, with
\* only the default bindings
PanInit ==
  /\ keystate = [code \in {} |-> FALSE]
  /\ handlers = DefaultHandlers
  /\ keyupTimeout = 0
  /\ pending = {}
  /\ forceUpdate = FALSE
  /\ isEnabled = TRUE
  /\ isFocused = TRUE
  /\ forceFocus = FALSE
  /\ blockedKeys = {}
  /\ panSpeed = DEFAULT_KEY_PAN_SPEED
  /\ lastOp = <<"update", 0>>
  /\ log = <<>>
  /\ lastKeyEvent = [code \in EventCodes |-> "none"]

PanNext ==
  \/ \E code \in PanCodes : onkeydown(code) /\ UNCHANGED lastKeyEvent
  \/ \E code \in PanCodes : onkeyup(code) /\ UNCHANGED lastKeyEvent
  \/ \E id \in pending : keyupTimeoutFired(id) /\ UNCHANGED lastKeyEvent
  \/ \E s \in PanSpeeds : SetPanSpeed(s) /\ UNCHANGED lastKeyEvent
  \/ update /\ UNCHANGED lastKeyEvent

PanSpec == PanInit /\ [][PanNext]_vars

\* Key events with their history recorded: every operation except use()
KeyNext ==
  \/ \E code \in EventCodes :
       onkeydown(code) /\ lastKeyEvent' = [lastKeyEvent EXCEPT ![code] = "down"]
  \/ \E code \in EventCodes :
       onkeyup(code) /\ lastKeyEvent' = [lastKeyEvent EXCEPT ![code] = "up"]
  \/ \E id \in pending : keyupTimeoutFired(id) /\ UNCHANGED lastKeyEvent
  \/ update /\ UNCHANGED lastKeyEvent
  \/ reset /\ UNCHANGED lastKeyEvent
  \/ enable /\ UNCHANGED lastKeyEvent
  \/ disable /\ UNCHANGED lastKeyEvent
  \/ \E b \in BOOLEAN : SetFocused(b) /\ UNCHANGED lastKeyEvent
  \/ \E b \in BOOLEAN : SetForceFocus(b) /\ UNCHANGED lastKeyEvent
  \/ \E code \in ConstraintCodes, b \in BOOLEAN :
       SetConstraint(code, b) /\ UNCHANGED lastKeyEvent

KeySpec == Init /\ [][KeyNext]_vars

TypeOK ==
  /\ DOMAIN keystate \subseteq EventCodes \cup PanCodes
  /\ \A c \in DOMAIN keystate : keystate[c] \in BOOLEAN
  /\ keyupTimeout \in Nat
  /\ forceUpdate \in BOOLEAN /\ isEnabled \in BOOLEAN
  /\ blockedKeys \subseteq ConstraintCodes
  /\ panSpeed \in PanSpeeds \cup {DEFAULT_KEY_PAN_SPEED}

----------------------------------------------------------------------------
(* Properties *)

\* the call entries of the log that belong to one key code, in order
CallsFor(code) ==
  LET IsCall(e) == e.ev = "call" /\ e.data.code = code
  IN SelectSeq(log, IsCall)

CallsForNext(code) ==
  LET IsCall(e) == e.ev = "call" /\ e.data.code = code
  IN SelectSeq(log', IsCall)

HasEvent(l, kind) == \E i \in 1..Len(l) : l[i].ev = kind

\* the key name the registry documents for a supported code
keyNameFor(code) ==
  CASE code = 38 -> "up" [] code = 40 -> "down"
    [] code = 37 -> "left" [] code = 39 -> "right"

\* C1: a key-down changes KeyState only when the controller is enabled, the
\* scene is focused (forceFocus or isFocused), the code is supported and the
\* code is not blocked, and then only by setting that code's entry to true;
\* every other key-down leaves KeyState entirely unchanged, so no entry of an
\* unsupported code is ever true.
C1_KeyDownGate ==
  /\ [][\A code \in EventCodes :
          lastOp' = <<"keydown", code>> =>
            /\ keystate' # keystate =>
                 /\ isEnabled /\ (forceFocus \/ isFocused)
                 /\ code \in {37, 38, 39, 40}
                 /\ code \notin blockedKeys
                 /\ keystate' = Put(keystate, code, TRUE)
            /\ ~(isEnabled /\ (forceFocus \/ isFocused)
                   /\ code \in {37, 38, 39, 40} /\ code \notin blockedKeys)
                 => keystate' = keystate]_vars
  /\ [](\A code \in DOMAIN keystate :
          keystate[code] = TRUE => code \in {37, 38, 39, 40})

\* an enabled, focused controller holding `up' has just ignored a key-down
\* of the unsupported esc key
C1_Witness ==
  /\ lastOp = <<"keydown", 27>>
  /\ isEnabled /\ Focused
  /\ Truthy(keystate, 38)
  /\ ~Truthy(keystate, 27)

\* C2: for every keycode and in every controller state, a key-up leaves that
\* code's KeyState entry false and changes no other code's entry.
C2_KeyUpClears ==
  [][\A code \in EventCodes :
       lastOp' = <<"keyup", code>> =>
         /\ DOMAIN keystate' = DOMAIN keystate \cup {code}
         /\ keystate'[code] = FALSE
         /\ \A other \in DOMAIN keystate \ {code} :
              keystate'[other] = keystate[other]]_vars

\* an unfocused, disabled controller got a key-up of the never-pressed,
\* unsupported esc key while `up' stays held
C2_Witness ==
  /\ lastOp = <<"keyup", 27>>
  /\ ~Focused /\ ~isEnabled
  /\ 27 \in DOMAIN keystate /\ keystate[27] = FALSE
  /\ Truthy(keystate, 38)

\* C3: in one update() call every registered handler of code c is invoked
\* exactly once, with {name: keyNameFor(c), code: c}, when c is supported and
\* KeyState[c] is true, and not at all otherwise; with no key down update()
\* invokes no handler and issues no pan; after a key-up of c the following
\* update() invokes none of c's handlers.
C3_UpdateDispatch ==
  /\ [](lastOp[1] = "update" =>
          /\ \A code \in DOMAIN handlers :
               \A i \in 1..Len(handlers[code]) :
                 LET hits == {j \in 1..Len(log) :
                                /\ log[j].ev = "call"
                                /\ log[j].data.code = code
                                /\ log[j].idx = i}
                 IN IF code \in {37, 38, 39, 40} /\ Truthy(keystate, code)
                    THEN /\ Cardinality(hits) = 1
                         /\ \A j \in hits :
                              /\ log[j].fn = handlers[code][i]
                              /\ log[j].data = [name |-> keyNameFor(code), code |-> code]
                    ELSE hits = {}
          /\ \A j \in 1..Len(log) :
               log[j].ev = "call" =>
                 /\ log[j].data.code \in DOMAIN handlers
                 /\ log[j].idx \in 1..Len(handlers[log[j].data.code])
          /\ ~isKeydown => log = <<>>)
  /\ [][\A code \in EventCodes :
          lastOp = <<"keyup", code>> /\ lastOp'[1] = "update" =>
            CallsForNext(code) = <<>>]_vars

\* update() ran with `up' held and `down' not held: h1, registered for up,
\* was called, and the handler registered for esc was not
C3_Witness ==
  /\ lastOp[1] = "update"
  /\ Truthy(keystate, 38) /\ ~Truthy(keystate, 40)
  /\ 27 \in DOMAIN handlers
  /\ Len(handlers[38]) = 2
  /\ \E j \in 1..Len(log) :
       log[j] = [ev |-> "call", fn |-> handlers[38][2], idx |-> 2,
                 data |-> [name |-> "up", code |-> 38]]

\* C4: handlers accumulate per key and run in registration order: an update()
\* with a key held invokes exactly that key's handler list, in order, the
\* default binding first; no step drops or reorders a registered handler, and
\* use() adds the new handler at the end.
C4_RegistrationOrder ==
  /\ [](lastOp[1] = "update" =>
          \A code \in {37, 38, 39, 40} :
            Truthy(keystate, code) =>
              /\ Len(CallsFor(code)) = Len(handlers[code])
              /\ \A i \in 1..Len(handlers[code]) :
                   CallsFor(code)[i].fn = handlers[code][i])
  /\ [](/\ handlers[38][1] = "panUp" /\ handlers[40][1] = "panDown"
        /\ handlers[37][1] = "panLeft" /\ handlers[39][1] = "panRight")
  /\ [][\A code \in DOMAIN handlers :
          /\ code \in DOMAIN handlers'
          /\ Len(handlers'[code]) >= Len(handlers[code])
          /\ SubSeq(handlers'[code], 1, Len(handlers[code])) = handlers[code]]_vars

\* update() ran with `up' held after use('up', h1) and use(38, h2): the
\* default binding, h1 and h2 were called in that order
C4_Witness ==
  /\ lastOp[1] = "update"
  /\ Truthy(keystate, 38)
  /\ handlers[38] = <<"panUp", "h1", "h2">>
  /\ Len(CallsFor(38)) = 3
  /\ CallsFor(38)[1].fn = "panUp"
  /\ CallsFor(38)[2].fn = "h1"
  /\ CallsFor(38)[3].fn = "h2"

\* C5: the constraint set is read on every key-down: for an enabled, focused
\* controller and a supported key, a key-down is accepted (sets the entry
\* true, suppresses the default action) exactly when the key is not blocked
\* at that moment; a blocked key-down changes nothing, so a released key that
\* was constrained afterwards stays false.
C5_ConstraintReadFresh ==
  [][\A code \in EventCodes \cap {37, 38, 39, 40} :
       (lastOp' = <<"keydown", code>> /\ isEnabled /\ (forceFocus \/ isFocused)) =>
         IF code \notin blockedKeys
         THEN /\ keystate' = Put(keystate, code, TRUE)
              /\ HasEvent(log', "preventDefault")
         ELSE /\ keystate' = keystate
              /\ ~HasEvent(log', "preventDefault")
              /\ ~HasEvent(log', "emit")]_vars

\* `up' was released, then constrained, and its next key-down on an enabled,
\* focused controller was rejected
C5_Witness ==
  /\ lastOp = <<"keydown", 38>>
  /\ isEnabled /\ Focused
  /\ 38 \in blockedKeys
  /\ 38 \in DOMAIN keystate /\ keystate[38] = FALSE
  /\ ~HasEvent(log, "preventDefault")

\* C6: right after a key-up received while focused forceUpdate is true and
\* exactly the timer that key-up scheduled is pending; forceUpdate goes from
\* true to false only when the timer of the most recent focused key-up
\* fires; a focused key-up while a timer is pending cancels it and schedules
\* a different one, forceUpdate staying true across that step.
C6_DebounceWindow ==
  /\ [][\A code \in EventCodes :
          (lastOp' = <<"keyup", code>> /\ (forceFocus \/ isFocused)) =>
            /\ forceUpdate'
            /\ keyupTimeout' \notin pending
            /\ keyupTimeout' # keyupTimeout
            /\ pending' = {keyupTimeout'}]_vars
  /\ [][(forceUpdate /\ ~forceUpdate') =>
          /\ lastOp' = <<"timer", keyupTimeout>>
          /\ keyupTimeout \in pending
          /\ keyupTimeout' = keyupTimeout]_vars
  /\ [](pending # {} => forceUpdate)

\* a second focused key-up arrived while the first key-up's timer was still
\* pending: that timer was cancelled, a new one scheduled, forceUpdate true
C6_Witness ==
  /\ lastOp[1] = "keyup"
  /\ Len(log) = 2
  /\ log[1].ev = "cancel"
  /\ log[2] = [ev |-> "setTimeout", id |-> keyupTimeout]
  /\ log[1].id # keyupTimeout
  /\ pending = {keyupTimeout}
  /\ forceUpdate

\* C7 (as claimed): forceUpdate is never left true with no pending timer.
C7_Original_NeverStuck == forceUpdate => pending # {}

\* C7 (amended): after a focused key-up, provided no further key-up, no
\* key-down and no reset() occurs, the timer that key-up scheduled eventually
\* fires and forceUpdate becomes false, whatever update, focus-change or
\* enable/disable events happen meanwhile; forceUpdate is left true with no
\* pending timer only by a key-down or a reset() cancelling the timer.
C7_GraceWindowEnds ==
  /\ \A id \in 1..3 :
       (keyupTimeout = id /\ id \in pending)
         ~> (\/ ~forceUpdate
             \/ keyupTimeout # id
             \/ lastOp[1] \in {"keydown", "reset"})
  /\ [][(forceUpdate' /\ pending' = {} /\ ~(forceUpdate /\ pending = {})) =>
          lastOp'[1] \in {"keydown", "reset"}]_vars

\* the timer of a focused key-up has fired undisturbed: forceUpdate is false
\* again and the handle it was scheduled under is still the stored one
C7_Witness ==
  /\ lastOp = <<"timer", keyupTimeout>>
  /\ ~forceUpdate
  /\ pending = {}

\* C8: at most one release timer is pending in every reachable state, the
\* pending one is the one stored in keyupTimeout, and the timer that fires
\* is never a superseded one.
C8_SingleTimer ==
  /\ [](Cardinality(pending) <= 1 /\ pending \subseteq {keyupTimeout})
  /\ [][lastOp'[1] = "timer" => lastOp'[2] = keyupTimeout]_vars

\* a key-up rescheduled the release timer while one was pending and only
\* the new timer is outstanding
C8_Witness ==
  /\ lastOp[1] = "keyup"
  /\ HasEvent(log, "cancel")
  /\ Cardinality(pending) = 1
  /\ keyupTimeout \in pending

\* C9 (as claimed): every key-down and every key-up is forwarded with
\* scope.emit, whatever the controller did with it.
C9_Original_AlwaysForwarded ==
  lastOp[1] \in {"keydown", "keyup"} =>
    \E i \in 1..Len(log) :
      log[i] = [ev |-> "emit", name |-> lastOp[1], which |-> lastOp[2]]

\* C9 (amended): a key-down is forwarded with scope.emit("keydown", event)
\* exactly when the controller is enabled and either the scene is unfocused
\* or the key-down was accepted (supported and not constrained); a key-up is
\* never forwarded by the controller.
C9_ForwardedWhen ==
  /\ lastOp[1] = "keydown" =>
       LET code == lastOp[2]
           emits == {i \in 1..Len(log) : log[i].ev = "emit"}
           forwarded == isEnabled /\ (~(forceFocus \/ isFocused)
                                       \/ (code \in {37, 38, 39, 40}
                                            /\ code \notin blockedKeys))
       IN /\ forwarded => Cardinality(emits) = 1
          /\ ~forwarded => emits = {}
          /\ \A i \in emits :
               log[i] = [ev |-> "emit", name |-> "keydown", which |-> code]
  /\ lastOp[1] = "keyup" => ~HasEvent(log, "emit")

\* an enabled, unfocused controller forwarded the key-down of the
\* unsupported esc key without recording it
C9_Witness ==
  /\ lastOp = <<"keydown", 27>>
  /\ isEnabled /\ ~Focused
  /\ log = <<[ev |-> "emit", name |-> "keydown", which |-> 27]>>
  /\ ~Truthy(keystate, 27)

\* C10 (as claimed): once pending, a release timer stays pending until it
\* fires, is superseded by a focused key-up, or reset() is called.
C10_Original_OnlyResetCancels ==
  [][\A id \in pending :
       id \notin pending' => lastOp'[1] \in {"timer", "keyup", "reset"}]_vars

\* C10 (amended): while isEnabled is false every key-down leaves KeyState
\* unchanged, emits nothing and does not suppress the default action;
\* disabling does not cancel a pending release timer; the operations that
\* cancel a pending release timer without scheduling a replacement are
\* reset() and every key-down (also one received while disabled), so the
\* timer stays pending until it fires, is superseded by a focused key-up, a
\* key-down arrives, or reset() is called.
C10_DisabledKeyDown ==
  /\ [][(lastOp'[1] = "keydown" /\ ~isEnabled) =>
          /\ keystate' = keystate
          /\ ~HasEvent(log', "emit")
          /\ ~HasEvent(log', "preventDefault")]_vars
  /\ [][lastOp'[1] \in {"disable", "enable"} =>
          pending' = pending /\ keyupTimeout' = keyupTimeout]_vars
  /\ [][\A id \in pending :
          id \notin pending' =>
            \/ lastOp' = <<"timer", id>>
            \/ lastOp'[1] = "keyup" /\ pending' # {}
            \/ lastOp'[1] \in {"keydown", "reset"} /\ pending' = {}]_vars

\* a disabled controller received a key-down while the release timer was
\* pending: the timer was cancelled, nothing else happened
C10_Witness ==
  /\ lastOp[1] = "keydown"
  /\ ~isEnabled
  /\ log = <<[ev |-> "cancel", id |-> keyupTimeout]>>
  /\ pending = {}
  /\ forceUpdate

\* C11: use(keyOrCode, handler) fails with a type error and leaves the
\* registry unchanged when the key resolves to a non-numeric value (unknown
\* name, or neither string nor number); otherwise it appends exactly that
\* handler at the end of the resolved code's list, creating the list if
\* absent, and leaves every other list and KeyState unchanged.
C11_UseTypeError ==
  [][lastOp'[1] = "use" =>
     \A key \in UseKeys, fn \in CustomHandlers :
       LET known == {"esc", "space", "left", "up", "right", "down"}
           numeric == \/ key[1] = "number"
                      \/ key[1] = "string" /\ key[2] \in known
           code == IF key[1] = "number" THEN key[2] ELSE keycodes[key[2]]
           effect ==
             /\ keystate' = keystate
             /\ IF ~numeric
                THEN /\ log' = <<[ev |-> "throw", error |-> "TypeError"]>>
                     /\ handlers' = handlers
                ELSE /\ ~HasEvent(log', "throw")
                     /\ DOMAIN handlers' = DOMAIN handlers \cup {code}
                     /\ handlers'[code] =
                          (IF code \in DOMAIN handlers THEN handlers[code] ELSE <<>>)
                            \o <<fn>>
                     /\ \A other \in DOMAIN handlers \ {code} :
                          handlers'[other] = handlers[other]
       IN \/ lastOp'[2] # (IF numeric THEN code ELSE 0)
          \/ effect
          \/ ~use(key, fn)]_vars

\* after one successful registration, a use() with a key that is not
\* numeric after resolution threw and the registry still holds that one
C11_Witness ==
  /\ lastOp = <<"use", 0>>
  /\ log = <<[ev |-> "throw", error |-> "TypeError"]>>
  /\ UseCount = 1

\* C12: a key-down suppresses the default browser action exactly when it was
\* accepted, that is when it set KeyState[code] = true; a key-down that is
\* unsupported, constrained, unfocused or received while disabled changes
\* no key state, raises no error and does not suppress the default action.
C12_PreventDefaultIffAccepted ==
  [][\A code \in EventCodes :
       lastOp' = <<"keydown", code>> =>
         LET accepted == /\ isEnabled /\ (forceFocus \/ isFocused)
                         /\ code \in {37, 38, 39, 40}
                         /\ code \notin blockedKeys
             prevented == {i \in 1..Len(log') : log'[i].ev = "preventDefault"}
         IN /\ accepted => Cardinality(prevented) = 1
            /\ ~accepted => prevented = {}
            /\ prevented # {} => keystate' = Put(keystate, code, TRUE)
            /\ ~accepted => keystate' = keystate
            /\ ~HasEvent(log', "throw")]_vars

\* with `up' already held, the key-down of `down' was accepted and its
\* default action suppressed
C12_Witness ==
  /\ lastOp = <<"keydown", 40>>
  /\ HasEvent(log, "preventDefault")
  /\ Truthy(keystate, 40)
  /\ Truthy(keystate, 38)

\* C13: an update() tick with at least one key held calls the base
\* controller's update() exactly once, as the last effect of the tick, after
\* every handler invocation; a tick with no key held invokes no handler and
\* no base update().
C13_BaseUpdateLast ==
  lastOp[1] = "update" =>
    IF isKeydown
    THEN /\ Len(log) >= 2
         /\ log[Len(log)].ev = "baseUpdate"
         /\ \A i \in 1..(Len(log) - 1) : log[i].ev \in {"call", "pan"}
         /\ \E i \in 1..(Len(log) - 1) : log[i].ev = "call"
    ELSE log = <<>>

\* update() ran with `up' and `down' held: both defaults were called and
\* panned, then the base update ran
C13_Witness ==
  /\ lastOp[1] = "update"
  /\ Truthy(keystate, 38) /\ Truthy(keystate, 40)
  /\ Len(log) >= 5
  /\ log[Len(log)] = [ev |-> "baseUpdate"]
  /\ log[1].ev = "call"

\* C14: after reset(), in whatever state it is called, every KeyState entry
\* is false (no key is down, so the next update() does nothing), no release
\* timer is pending, the base controller's reset has been called once and
\* the handler registry is unchanged; an entry becomes true again only by an
\* accepted key-down.
C14_ResetClears ==
  /\ [][lastOp'[1] = "reset" =>
          /\ DOMAIN keystate' = DOMAIN keystate
          /\ \A code \in DOMAIN keystate' : keystate'[code] = FALSE
          /\ ~isKeydown'
          /\ pending' = {}
          /\ Cardinality({i \in 1..Len(log') : log'[i].ev = "baseReset"}) = 1
          /\ handlers' = handlers]_vars
  /\ [][(lastOp[1] = "reset" /\ lastOp'[1] = "update") => log' = <<>>]_vars
  /\ [][\A code \in DOMAIN keystate' :
          (lastOp[1] = "reset" /\ keystate'[code] = TRUE) =>
            /\ lastOp' = <<"keydown", code>>
            /\ HasEvent(log', "preventDefault")]_vars

\* reset() ran while the release timer was pending and after `up' and
\* `down' had been touched: the timer is cancelled and both entries are false
C14_Witness ==
  /\ lastOp[1] = "reset"
  /\ log = <<[ev |-> "cancel", id |-> keyupTimeout], [ev |-> "baseReset"]>>
  /\ {38, 40} \subseteq DOMAIN keystate
  /\ ~isKeydown
  /\ pending = {}
  /\ UseCount >= 1

\* C15: a KeyState entry is true only through an accepted key-down for its
\* code with no key-up for that code and no reset() since: an entry turns
\* from not-true to true only in an accepted key-down of that code, is not
\* true right after a key-up of that code or a reset(), and update(), timer
\* firing, use(), focus changes, enable/disable and constraint changes leave
\* KeyState as it is.
C15_TrueOnlyByAcceptedKeyDown ==
  /\ [][\A code \in DOMAIN keystate' :
          (~Truthy(keystate, code) /\ keystate'[code] = TRUE) =>
            /\ lastOp' = <<"keydown", code>>
            /\ isEnabled /\ (forceFocus \/ isFocused)
            /\ code \in {37, 38, 39, 40}
            /\ code \notin blockedKeys]_vars
  /\ [][\A code \in EventCodes :
          (lastOp' = <<"keyup", code>> \/ lastOp'[1] = "reset") =>
            ~Truthy(keystate', code)]_vars
  /\ [][lastOp'[1] \in {"update", "timer", "use", "scene", "enable", "disable"} =>
          keystate' = keystate]_vars

\* the release timer of `down' fired while `up', accepted earlier and not
\* released, is still recorded as held
C15_Witness ==
  /\ lastOp[1] = "timer"
  /\ Truthy(keystate, 38)
  /\ 40 \in DOMAIN keystate /\ keystate[40] = FALSE

\* C16: constraints are not re-validated for held keys: blocking a key does
\* not change KeyState, a true entry goes back to false only by a key-up of
\* its code or by reset(), and an update() with a held key that is blocked
\* by now still invokes all of that key's handlers.
C16_HeldKeyIgnoresConstraint ==
  /\ [][blockedKeys' # blockedKeys => keystate' = keystate]_vars
  /\ [][\A code \in DOMAIN keystate :
          (keystate[code] = TRUE /\ ~Truthy(keystate', code)) =>
            (lastOp' = <<"keyup", code>> \/ lastOp'[1] = "reset")]_vars
  /\ [](lastOp[1] = "update" =>
          \A code \in blockedKeys :
            Truthy(keystate, code) =>
              /\ Len(CallsFor(code)) = Len(handlers[code])
              /\ Len(CallsFor(code)) >= 1
              /\ HasEvent(log, "pan"))

\* `up' was accepted, then constrained while held, and the next update()
\* still called its handlers and panned
C16_Witness ==
  /\ lastOp[1] = "update"
  /\ Truthy(keystate, 38)
  /\ 38 \in blockedKeys
  /\ Len(CallsFor(38)) = Len(handlers[38])
  /\ HasEvent(log, "pan")

\* C18: the registry is complete: in every reachable state every supported
\* keycode has a handler list whose first entry is the binding installed at
\* construction, so an update() that passes the early exit finds a non-empty
\* list for each supported code and throws nothing; no operation shortens a
\* list or removes one.
C18_RegistryComplete ==
  /\ [](\A i \in 1..Len(supported) :
          /\ supported[i] \in DOMAIN handlers
          /\ Len(handlers[supported[i]]) >= 1)
  /\ [](\A code \in {37, 38, 39, 40} :
          /\ code \in DOMAIN handlers
          /\ handlers[code][1] \in {"panUp", "panDown", "panLeft", "panRight"}
          /\ HandlerBody(handlers[code][1], [name |-> keyNameFor(code), code |-> code]) # <<>>)
  /\ [](lastOp[1] = "update" => ~HasEvent(log, "throw"))
  /\ [][\A code \in DOMAIN handlers :
          /\ code \in DOMAIN handlers'
          /\ Len(handlers'[code]) >= Len(handlers[code])]_vars

\* update() ran with `down' held after two more use() calls, one of them for
\* the unsupported esc: it threw nothing and finished with the base update
C18_Witness ==
  /\ lastOp[1] = "update"
  /\ Truthy(keystate, 40)
  /\ UseCount = 2
  /\ 27 \in DOMAIN handlers
  /\ ~HasEvent(log, "throw")
  /\ HasEvent(log, "baseUpdate")

\* C20: disabling gates only key-down: disable leaves KeyState unchanged; an
\* update() on a disabled controller still invokes the handlers of every
\* held key; while disabled a true entry is cleared only by a key-up of its
\* code or reset(); a key-up received while disabled clears its entry and,
\* if the scene is focused, sets forceUpdate and schedules the release timer.
C20_DisableGatesOnlyKeyDown ==
  /\ [][isEnabled' # isEnabled =>
          keystate' = keystate /\ pending' = pending /\ forceUpdate' = forceUpdate]_vars
  /\ [](lastOp[1] = "update" /\ ~isEnabled =>
          \A code \in {37, 38, 39, 40} :
            Truthy(keystate, code) =>
              /\ Len(CallsFor(code)) = Len(handlers[code])
              /\ Len(CallsFor(code)) >= 1)
  /\ [][\A code \in EventCodes :
          (lastOp' = <<"keyup", code>> /\ ~isEnabled) =>
            /\ code \in DOMAIN keystate' /\ keystate'[code] = FALSE
            /\ IF forceFocus \/ isFocused
               THEN /\ forceUpdate'
                    /\ pending' = {keyupTimeout'}
                    /\ HasEvent(log', "setTimeout")
               ELSE /\ forceUpdate' = forceUpdate
                    /\ pending' = pending]_vars
  /\ [][\A code \in DOMAIN keystate :
          (~isEnabled /\ keystate[code] = TRUE /\ ~Truthy(keystate', code)) =>
            (lastOp' = <<"keyup", code>> \/ lastOp'[1] = "reset")]_vars

\* a disabled, focused controller received the key-up of `up' while `down'
\* stays held: the entry is cleared, forceUpdate set and the timer scheduled
C20_Witness ==
  /\ lastOp = <<"keyup", 38>>
  /\ ~isEnabled /\ Focused
  /\ keystate[38] = FALSE
  /\ Truthy(keystate, 40)
  /\ forceUpdate
  /\ pending = {keyupTimeout}

\* the pan commands of the log, in order
Pans == LET IsPan(e) == e.ev = "pan" IN SelectSeq(log, IsPan)

RECURSIVE SumDx2(_)
SumDx2(ps) == IF ps = <<>> THEN 0 ELSE Head(ps).dx2 + SumDx2(Tail(ps))

RECURSIVE SumDy2(_)
SumDy2(ps) == IF ps = <<>> THEN 0 ELSE Head(ps).dy2 + SumDy2(Tail(ps))

\* the documented pan {x, y} of a direction at speed s, doubled:
\* up {0, -s/2}, down {0, +s/2}, left {-2s, 0}, right {+2s, 0}
ClaimedPan(code, s) ==
  CASE code = 38 -> [ev |-> "pan", dx2 |-> 0, dy2 |-> -s]
    [] code = 40 -> [ev |-> "pan", dx2 |-> 0, dy2 |-> s]
    [] code = 37 -> [ev |-> "pan", dx2 |-> -4 * s, dy2 |-> 0]
    [] code = 39 -> [ev |-> "pan", dx2 |-> 4 * s, dy2 |-> 0]

\* C17: with only the four default bindings and pan speed s at the time of
\* the tick, one update() with held-key set H issues exactly one pan per key
\* of H and none for the other keys: up {0, -s/2}, down {0, +s/2},
\* left {-2s, 0}, right {+2s, 0}; with up and down both held the pans of the
\* tick add up to zero along y, with left and right both held to zero along x.
C17_DefaultPans ==
  lastOp[1] = "update" =>
    LET H == {code \in {37, 38, 39, 40} : Truthy(keystate, code)}
    IN /\ Len(Pans) = Cardinality(H)
       /\ \A code \in H :
            Cardinality({i \in 1..(Len(log) - 1) :
                           /\ log[i].ev = "call"
                           /\ log[i].data.code = code
                           /\ log[i + 1] = ClaimedPan(code, panSpeed)}) = 1
       /\ \A code \in {37, 38, 39, 40} \ H :
            \A i \in 1..Len(log) : log[i].ev = "call" => log[i].data.code # code
       /\ ({38, 40} \subseteq H) => SumDy2(Pans) = 0
       /\ ({37, 39} \subseteq H) => SumDx2(Pans) = 0

\* update() ran at a pan speed set after construction with up, down and left
\* held: three pans, up and down cancelling, left moving x by -2s
C17_Witness ==
  /\ lastOp[1] = "update"
  /\ panSpeed = 3
  /\ {code \in {37, 38, 39, 40} : Truthy(keystate, code)} = {37, 38, 40}
  /\ Len(Pans) = 3
  /\ SumDy2(Pans) = 0
  /\ SumDx2(Pans) = -12

\* C19 (as claimed): at every update() tick KeyState[code] is true exactly
\* when the most recent key event delivered for that code was a key-down.
C19_Original_ReflectsPhysical ==
  lastOp[1] = "update" =>
    \A code \in EventCodes \cap {37, 38, 39, 40} :
      Truthy(keystate, code) <=> lastKeyEvent[code] = "down"

\* C19 (amended): for every key, KeyState[code] = true implies that the most
\* recent key event delivered for that code was a key-down, and KeyState[code]
\* is false when that event was a key-up or the key was never pressed; the
\* converse does not hold: the most recent event is a key-down with
\* KeyState[code] false after a rejected key-down (disabled, unfocused,
\* unsupported or constrained) or after reset().
C19_TrueImpliesHeld ==
  /\ [](\A code \in EventCodes :
          /\ Truthy(keystate, code) => lastKeyEvent[code] = "down"
          /\ lastKeyEvent[code] \in {"up", "none"} => ~Truthy(keystate, code))
  /\ [][\A code \in EventCodes :
          (/\ lastKeyEvent'[code] = "down" /\ ~Truthy(keystate', code)
           /\ ~(lastKeyEvent[code] = "down" /\ ~Truthy(keystate, code))) =>
            \/ lastOp'[1] = "reset"
            \/ /\ lastOp' = <<"keydown", code>>
               /\ ~(/\ isEnabled /\ (forceFocus \/ isFocused)
                    /\ code \in {37, 38, 39, 40}
                    /\ code \notin blockedKeys)]_vars

\* at an update() tick `up' is held and recorded, `down' was released and is
\* recorded as released
C19_Witness ==
  /\ lastOp[1] = "update"
  /\ lastKeyEvent[38] = "down" /\ Truthy(keystate, 38)
  /\ lastKeyEvent[40] = "up" /\ ~Truthy(keystate, 40)

====
